---- MODULE Spec2Model ----
(***************************************************************************)
(* Model of the ISO/IEC 29794-9 Q1 (Effective Area) implementation:        *)
(*   src/quality_metrics.py   calculate_q1, create_test_image              *)
(*   src/run_test.py          run_verification_tests                       *)
(*                                                                         *)
(* Three specifications share the variables:                               *)
(*   SpecScore    the scoring step of calculate_q1 (lines 67-75) applied   *)
(*                to every pixel count of a bounded range;                 *)
(*   SpecHarness  create_test_image followed by calculate_q1;              *)
(*   SpecSeg      calculate_q1 on a bounded family of image files.         *)
(***************************************************************************)
EXTENDS Integers, Naturals, Sequences, FiniteSets, TLC

VARIABLES pc,               \* position of the caller: "start", "ready", "scored", "done"
          file,             \* the image file at image_path
          args,             \* <<width, height, foreground_pixels>> of create_test_image
          S_unoccluded,     \* calculate_q1's local of that name (line 65)
          ret,              \* the pair calculate_q1 returned, <<>> before it returns
          exc,              \* the exception that reached calculate_q1's caller
          fault,            \* the exception calculate_q1 caught and printed
          contours,         \* calculate_q1's local of that name (line 51)
          largest_contour,  \* calculate_q1's local of that name (line 58)
          mask,             \* calculate_q1's local of that name (lines 61-62)
          stdout            \* the last line printed

vars == <<pc, file, args, S_unoccluded, ret, exc, fault, contours, largest_contour,
          mask, stdout>>

None == "None"

(***************************************************************************)
(* Bounds of the model.                                                    *)
(***************************************************************************)
\* largest pixel count fed to the scoring step (the harness image is 200x200)
MaxPixels == 40000
\* largest width and height create_test_image is called with, besides 200
MaxDim == 4
\* largest foreground_pixels create_test_image is called with, besides the
\* harness's
MaxCount == 18
\* width and height of the image files calculate_q1 is given
GridW == 5
GridH == 5
\* largest side of the second shape of an image file
MaxBlob == 2

(***************************************************************************)
(* Program constants.                                                      *)
(***************************************************************************)
\* quality_metrics.py:38   Sc = 20000
Sc == 20000
\* quality_metrics.py:72   "... * 100"
Percent == 100
\* quality_metrics.py:73   "min(100, ...)"
MaxScore == 100

(***************************************************************************)
(* IEEE-754 binary64 arithmetic, as far as line 72-73 use it.              *)
(* A positive double is [m |-> <<l0,l1,l2,l3,l4>>, e |-> E]: its value is  *)
(*   (l0*2^52 + l1*2^39 + l2*2^26 + l3*2^13 + l4) * 2^(E-52)               *)
(* with l0 = 1 and 13-bit limbs l1..l4 (a 53-bit significand).  Every      *)
(* operation rounds to nearest, ties to even, as the hardware does.        *)
(***************************************************************************)
RECURSIVE Pow2(_)
Pow2(n) == IF n = 0 THEN 1 ELSE 2 * Pow2(n - 1)

\* a limb holds 13 bits
Limb == Pow2(13)

\* largest e >= 0 with d * 2^e <= p   (for p >= d)
RECURSIVE ExpUp(_, _)
ExpUp(p, d) == IF 2 * d <= p THEN 1 + ExpUp(p, 2 * d) ELSE 0

\* smallest k >= 0 with p * 2^k >= d
RECURSIVE ExpDown(_, _)
ExpDown(p, d) == IF p >= d THEN 0 ELSE 1 + ExpDown(2 * p, d)

\* floor(log2(n)) for n >= 1
RECURSIVE Log2(_)
Log2(n) == IF n < 2 THEN 0 ELSE 1 + Log2(n \div 2)

\* significand + 1, with the carry into the exponent when it reaches 2^53
FInc(x) ==
    LET m  == x.m
        l4 == m[5] + 1
        l3 == m[4] + (l4 \div Limb)
        l2 == m[3] + (l3 \div Limb)
        l1 == m[2] + (l2 \div Limb)
        l0 == m[1] + (l1 \div Limb)
    IN  IF l0 = 2
        THEN [m |-> <<1, 0, 0, 0, 0>>, e |-> x.e + 1]
        ELSE [m |-> <<l0, l1 % Limb, l2 % Limb, l3 % Limb, l4 % Limb>>, e |-> x.e]

\* round to nearest, ties to even: rem is what was cut off, half is half an ulp
FRoundNearestEven(x, rem, half) ==
    IF rem > half \/ (rem = half /\ x.m[5] % 2 = 1)
    THEN FInc(x)
    ELSE x

\* the double nearest to p / d, for integers 1 <= p, d < 2^18
FDivInt(p, d) ==
    LET up  == p >= d
        e   == IF up THEN ExpUp(p, d) ELSE 0 - ExpDown(p, d)
        num == IF up THEN p ELSE p * Pow2(0 - e)
        den == IF up THEN d * Pow2(e) ELSE d
        r0  == num - den
        l1  == (r0 * Limb) \div den
        r1  == (r0 * Limb) % den
        l2  == (r1 * Limb) \div den
        r2  == (r1 * Limb) % den
        l3  == (r2 * Limb) \div den
        r3  == (r2 * Limb) % den
        l4  == (r3 * Limb) \div den
        r4  == (r3 * Limb) % den
    IN  FRoundNearestEven([m |-> <<1, l1, l2, l3, l4>>, e |-> e], 2 * r4, den)

\* the double nearest to x * k, for a double x and an integer 1 <= k < 2^13
FMulInt(x, k) ==
    LET m   == x.m
        v4  == m[5] * k
        v3  == m[4] * k + (v4 \div Limb)
        v2  == m[3] * k + (v3 \div Limb)
        v1  == m[2] * k + (v2 \div Limb)
        top == m[1] * k + (v1 \div Limb)
        n4  == v4 % Limb
        n3  == v3 % Limb
        n2  == v2 % Limb
        n1  == v1 % Limb
        s   == Log2(top)
        lo  == Pow2(s)
        hi  == Limb \div lo
        y   == [m |-> << top \div lo,
                         (top % lo) * hi + (n1 \div lo),
                         (n1 % lo) * hi + (n2 \div lo),
                         (n2 % lo) * hi + (n3 \div lo),
                         (n3 % lo) * hi + (n4 \div lo) >>,
                e |-> x.e + s]
    IN  IF s = 0 THEN y ELSE FRoundNearestEven(y, n4 % lo, lo \div 2)

\* round(x) with halves rounded up, as a decimal-style round would
PyRoundHalfUp(x) ==
    LET m == x.m
    IN  IF x.e < 0 - 1 THEN 0
        ELSE IF x.e = 0 - 1 THEN 1
        ELSE LET cut  == Pow2(13 - x.e)
                 int  == Pow2(x.e) + (m[2] \div cut)
             IN  IF m[2] % cut >= cut \div 2 THEN int + 1 ELSE int

\* Python's round(x) of a double 0 < x < 2^13: nearest integer, halves to even
PyRound(x) ==
    LET m == x.m
        restZero == m[3] = 0 /\ m[4] = 0 /\ m[5] = 0
    IN  IF x.e < 0 - 1 THEN 0
        ELSE IF x.e = 0 - 1
        THEN (IF m[2] = 0 /\ restZero THEN 0 ELSE 1)
        ELSE LET cut  == Pow2(13 - x.e)
                 half == cut \div 2
                 int  == Pow2(x.e) + (m[2] \div cut)
                 frac == m[2] % cut
             IN  IF frac > half \/ (frac = half /\ ~restZero) THEN int + 1
                 ELSE IF frac = half /\ restZero
                 THEN (IF int % 2 = 0 THEN int ELSE int + 1)
                 ELSE int

\* max where min was meant
MinSwapped(a, b) == IF a <= b THEN b ELSE a

\* Python's min of two integers (lines 73, 98, 108, 115, 116)
Min(a, b) == IF a <= b THEN a ELSE b

(***************************************************************************)
(* The scoring step of calculate_q1, quality_metrics.py:67-75.             *)
(***************************************************************************)
\* line 72:  q1_raw = S_unoccluded / Sc * 100
q1_raw(S) == FMulInt(FDivInt(S, Sc), Percent)

\* line 73 without the cap
Q1_scoreUncapped(S) == PyRound(q1_raw(S))

\* line 73:  Q1_score = min(100, round(q1_raw))
Q1_score(S) == Min(MaxScore, PyRound(q1_raw(S)))

\* lines 67-75: the veto, then the formula; the pair that is returned
ScoreStep(S) == IF S = 0 THEN <<0, 0>> ELSE <<Q1_score(S), S>>

(***************************************************************************)
(* Images.  An image is [kind, width, height, fg]: fg is the set of cells  *)
(* <<x, y>> holding 255, every other cell of the width x height grid holds *)
(* 0 (np.zeros, line 94; the only value ever stored is 255, lines 118 and  *)
(* 129).  kind "missing" and "corrupt" are files cv2.imread cannot decode. *)
(***************************************************************************)
\* the set S itself; TLC keeps a set sorted once its cardinality was taken,
\* and looks an element up in a sorted set by bisection
Sorted(S) == IF Cardinality(S) >= 0 THEN S ELSE {}

Cells(w, h) == Sorted({<<x, y>> : x \in 0..(w - 1), y \in 0..(h - 1)})

Image(w, h, fg) == [kind |-> "image", width |-> w, height |-> h, fg |-> fg]

Nbr4(c) == {<<c[1] - 1, c[2]>>, <<c[1] + 1, c[2]>>, <<c[1], c[2] - 1>>, <<c[1], c[2] + 1>>}

Nbr8(c) == Nbr4(c) \cup {<<c[1] - 1, c[2] - 1>>, <<c[1] + 1, c[2] - 1>>,
                         <<c[1] - 1, c[2] + 1>>, <<c[1] + 1, c[2] + 1>>}

\* the cells of region at distance 0, 1, 2, ... from the seeds (conn = 4 or 8):
\* a neighbour of a cell at distance k is at distance k - 1, k or k + 1
RECURSIVE Layers(_, _, _, _)
Layers(region, prev, frontier, conn) ==
    IF frontier = {} THEN <<>>
    ELSE LET near == UNION {IF conn = 4 THEN Nbr4(d) ELSE Nbr8(d) : d \in frontier}
             next == {c \in near : c \in region /\ c \notin prev /\ c \notin frontier}
         IN  <<frontier>> \o Layers(region, frontier, Sorted(next), conn)

\* the cells of region connected to the seeds
Flood(region, seeds, conn) ==
    LET layers == Layers(region, {}, seeds, conn)
    IN  Sorted(UNION {layers[i] : i \in 1..Len(layers)})

\* the maximal 8-connected sets of foreground cells
RECURSIVE Components(_)
Components(region) ==
    IF region = {} THEN {}
    ELSE LET seed == CHOOSE c \in region : TRUE
             comp == Flood(region, {seed}, 8)
         IN  {comp} \cup Components(Sorted(region \ comp))

\* the cells outside the outer border of comp: those a 4-connected path that
\* avoids comp joins to the frame of the image
Outside(comp, w, h) ==
    LET free  == Sorted(Cells(w, h) \ comp)
        frame == {c \in free : c[1] = 0 \/ c[1] = w - 1 \/ c[2] = 0 \/ c[2] = h - 1}
    IN  Flood(free, Sorted(frame), 4)

\* the cells on or inside the outer border of comp
Enclosed(comp, w, h) == Sorted(Cells(w, h) \ Outside(comp, w, h))

(***************************************************************************)
(* The OpenCV calls of calculate_q1, by their documented behaviour.        *)
(***************************************************************************)
\* line 48, cv2.threshold(image, 0, 255, THRESH_BINARY + THRESH_OTSU): on a
\* histogram with the levels 0 and 255 only, class 0 has mean 0 for every
\* threshold, the between-class variance is the same for t = 0..254 and the
\* first maximum wins; on a single level no threshold separates, and the
\* initial 0 is kept.
OtsuThreshold(img) == 0

\* line 48: the cells above the threshold
binary_mask(img) == {c \in img.fg : 255 > OtsuThreshold(img)}

\* line 51, cv2.findContours(..., RETR_EXTERNAL, ...): the outer borders of
\* the components that lie in no hole of another component.  A contour is
\* represented by the component it is the outer border of.
findContours(bm, w, h) ==
    LET comps == Components(bm)
    IN  {c \in comps : \A d \in comps \ {c} : ~(c \subseteq Enclosed(d, w, h))}

\* the orders in which findContours may list its contours
Orderings(S) ==
    {s \in [1..Cardinality(S) -> S] : \A i, j \in 1..Cardinality(S) : s[i] = s[j] => i = j}

\* line 58, cv2.contourArea: the area of the polygon through the centres of
\* the border cells (Green's formula), doubled to stay in the integers.  The
\* border runs between 8-neighbours, so of each 2x2 block of cells the polygon
\* covers the unit square when all four cells are on or inside the border,
\* half of it when three are, nothing otherwise.
contourArea2(comp, w, h) ==
    LET F == Enclosed(comp, w, h)
        in(x, y) == IF <<x, y>> \in F THEN 1 ELSE 0
        corners(x, y) == in(x, y) + in(x + 1, y) + in(x, y + 1) + in(x + 1, y + 1)
        blocks == {<<x, y>> : x \in 0..(w - 2), y \in 0..(h - 2)}
        most   == {b \in blocks : corners(b[1], b[2]) >= 3}
    IN  Cardinality(most) + Cardinality({b \in most : corners(b[1], b[2]) = 4})

\* line 58, max(contours, key=cv2.contourArea): the first contour of the list
\* whose key is the greatest
RECURSIVE FirstMax(_, _, _)
FirstMax(keys, i, best) ==
    IF i > Len(keys) THEN best
    ELSE FirstMax(keys, i + 1, IF keys[i] > keys[best] THEN i ELSE best)

RECURSIVE Keys(_, _, _)
Keys(cs, w, h) ==
    IF cs = <<>> THEN <<>>
    ELSE <<contourArea2(Head(cs), w, h)>> \o Keys(Tail(cs), w, h)

MaxByArea(cs, w, h) == cs[FirstMax(Keys(cs, w, h), 2, 1)]

\* a fill that leaves the holes of the contour out
fillPolyHollow(contour, w, h) == contour

\* line 62, cv2.fillPoly(mask, [largest_contour], 255) on a mask of zeros:
\* the cells on the polygon and inside it become 255
fillPoly(contour, w, h) == Enclosed(contour, w, h)

(***************************************************************************)
(* calculate_q1, quality_metrics.py:19-79.                                 *)
(***************************************************************************)
\* the library calls of the try block that may raise (cv2.error)
Faults == {None, "threshold", "findContours", "fillPoly"}

Locals(e, r, S, cs, lc, m) ==
    [exc |-> e, caught |-> None, ret |-> r, S_unoccluded |-> S, contours |-> cs,
     largest_contour |-> lc, mask |-> m]

\* lines 42-75, the body of the try block: what it returns or raises when the
\* library call flt raises and findContours lists the contours in order cs
\* lines 67-75: the veto and the score
VetoOrScore(cs, lc, m, S) == Locals(None, ScoreStep(S), S, cs, lc, m)

\* line 65, S_unoccluded = np.sum(mask == 255), and what follows
CountAndScore(cs, lc, m) == VetoOrScore(cs, lc, m, Cardinality(m))

\* lines 61-75, after largest_contour is known
FillAndScore(f, flt, cs, lc) ==
    IF flt = "fillPoly"
    THEN Locals("cv2.error", <<>>, 0, cs, lc, {})             \* line 62
    ELSE CountAndScore(cs, lc, fillPoly(lc, f.width, f.height))   \* lines 61-62

TryBody(f, flt, cs) ==
    IF f.kind # "image"
    THEN Locals("ValueError", <<>>, 0, <<>>, {}, {})          \* lines 43-44
    ELSE IF flt = "threshold"
    THEN Locals("cv2.error", <<>>, 0, <<>>, {}, {})           \* line 48
    ELSE IF flt = "findContours"
    THEN Locals("cv2.error", <<>>, 0, <<>>, {}, {})           \* line 51
    ELSE IF Len(cs) = 0
    THEN Locals(None, <<0, 0>>, 0, cs, {}, {})                \* lines 53-55
    ELSE FillAndScore(f, flt, cs, MaxByArea(cs, f.width, f.height))   \* line 58

\* "except ValueError" in place of "except Exception"
ExceptValueErrorOnly(b) ==
    IF b.exc = "ValueError"
    THEN [b EXCEPT !.exc = None, !.caught = b.exc, !.ret = <<0, 0>>]
    ELSE b

\* lines 77-79, "except Exception": print the error, return (0, 0)
ExceptHandler(b) ==
    IF b.exc # None
    THEN [b EXCEPT !.exc = None, !.caught = b.exc, !.ret = <<0, 0>>]
    ELSE b

\* lines 40-79
calculate_q1(f, flt, cs) == ExceptHandler(TryBody(f, flt, cs))

(***************************************************************************)
(* create_test_image, quality_metrics.py:82-136.                           *)
(***************************************************************************)
\* line 103, int(np.sqrt(n)): the square root of a double, truncated
ISqrt(n) == CHOOSE s \in 0..n : s * s <= n /\ n < (s + 1) * (s + 1)

\* lines 122-132, the remainder loop: cell k of the side_length x side_length
\* scan (row by row), stopped as soon as remaining_pixels <= 0
RECURSIVE FillRemainder(_, _, _, _, _, _, _)
FillRemainder(fg, k, rows, cols, start_x, start_y, remaining_pixels) ==
    IF remaining_pixels <= 0 \/ k >= rows * cols THEN fg
    ELSE LET c == <<start_x + (k % cols), start_y + (k \div cols)>>
         IN  IF c \notin fg                                    \* line 128
             THEN FillRemainder(fg \cup {c}, k + 1, rows, cols, start_x, start_y,
                                remaining_pixels - 1)
             ELSE FillRemainder(fg, k + 1, rows, cols, start_x, start_y,
                                remaining_pixels)

\* lines 94-121: the image after the slice assignment, and the locals
Square(width, height, foreground_pixels) ==
    LET max_pixels    == width * height                               \* line 97
        actual_pixels == Min(foreground_pixels, max_pixels)           \* line 98
        root          == ISqrt(actual_pixels)                         \* line 103
        side          == IF root * root < actual_pixels THEN root + 1 ELSE root
        side_length   == Min(side, Min(width, height))                \* line 108
        start_x       == (width - side_length) \div 2                 \* line 111
        start_y       == (height - side_length) \div 2                \* line 112
        end_x         == Min(start_x + side_length, width)            \* line 115
        end_y         == Min(start_y + side_length, height)           \* line 116
    IN  [actual_pixels |-> actual_pixels, side_length |-> side_length,
         start_x |-> start_x, start_y |-> start_y, end_x |-> end_x, end_y |-> end_y,
         fg |-> IF actual_pixels > 0
                THEN {<<x, y>> : x \in start_x..(end_x - 1), y \in start_y..(end_y - 1)}
                ELSE {},
         remaining_pixels |-> actual_pixels - (end_x - start_x) * (end_y - start_y)]

\* the remainder loop scanning the whole image instead of the square
create_test_image_ScanAll(width, height, foreground_pixels) ==
    LET sq == Square(width, height, foreground_pixels)
    IN  IF sq.actual_pixels > 0 /\ sq.remaining_pixels > 0
        THEN Image(width, height,
                   FillRemainder(sq.fg, 0, height, width, 0, 0, sq.remaining_pixels))
        ELSE Image(width, height, sq.fg)

\* lines 94-135: the image that is written
create_test_image(width, height, foreground_pixels) ==
    LET sq == Square(width, height, foreground_pixels)
    IN  IF sq.actual_pixels > 0 /\ sq.remaining_pixels > 0
        THEN Image(width, height,
                   FillRemainder(sq.fg, 0,
                                 Min(sq.start_y + sq.side_length, height) - sq.start_y,
                                 Min(sq.start_x + sq.side_length, width) - sq.start_x,
                                 sq.start_x, sq.start_y, sq.remaining_pixels))
        ELSE Image(width, height, sq.fg)

(***************************************************************************)
(* Values shared by the specifications.                                    *)
(***************************************************************************)
NoFile   == [kind |-> "missing", width |-> 0, height |-> 0, fg |-> {}]
Silent   == [msg |-> "", pixels |-> 0]

(***************************************************************************)
(* SpecScore: the scoring step on every pixel count 0..MaxPixels.          *)
(***************************************************************************)
\* pixel counts by which one scored image may exceed the previous one
Steps == {1, 2, 99, 100, 199, 200, 5000, 20000}

InitScore ==
    /\ pc = "start"
    /\ S_unoccluded \in 0..MaxPixels
    /\ ret = <<>>
    /\ file = NoFile /\ args = <<>> /\ exc = None /\ fault = None
    /\ contours = <<>> /\ largest_contour = {} /\ mask = {} /\ stdout = Silent

\* lines 67-75 applied to the pixel count at hand
Score ==
    /\ pc = "start"
    /\ ret' = ScoreStep(S_unoccluded)
    /\ pc' = "scored"
    /\ UNCHANGED <<file, args, S_unoccluded, exc, fault, contours, largest_contour,
                   mask, stdout>>

\* the caller scores a further image, whose foreground is d pixels larger
ScoreLarger ==
    /\ pc = "scored"
    /\ \E d \in Steps :
          /\ S_unoccluded + d <= MaxPixels
          /\ S_unoccluded' = S_unoccluded + d
          /\ ret' = ScoreStep(S_unoccluded + d)
    /\ UNCHANGED <<pc, file, args, exc, fault, contours, largest_contour, mask, stdout>>

NextScore == Score \/ ScoreLarger

SpecScore == InitScore /\ [][NextScore]_vars

(***************************************************************************)
(* calculate_q1 as a step of its caller (run_test.py:47, 61, 75, 92, 105,  *)
(* 118, 172).                                                              *)
(***************************************************************************)
\* the locals and the result of the call become the caller's state
Returns(r) ==
    /\ ret' = r.ret
    /\ exc' = r.exc
    /\ fault' = r.caught
    /\ S_unoccluded' = r.S_unoccluded
    /\ contours' = r.contours
    /\ largest_contour' = r.largest_contour
    /\ mask' = r.mask
    /\ stdout' = IF r.caught # None
                 THEN [msg |-> "Error processing image", pixels |-> 0]   \* line 78
                 ELSE stdout

CalculateQ1 ==
    /\ pc = "ready"
    /\ \E cs \in Orderings(findContours(binary_mask(file), file.width, file.height)) :
       \E flt \in Faults :
          Returns(calculate_q1(file, flt, cs))
    /\ pc' = "done"
    /\ UNCHANGED <<file, args>>

(***************************************************************************)
(* SpecHarness: create_test_image, then calculate_q1 on the file written   *)
(* (run_test.py:45-47 and the five tests after it).                        *)
(***************************************************************************)
\* run_test.py:46   create_test_image(200, 200, ...)
HarnessSize == 200
\* run_test.py:46, 60, 74, 91, 104, 117
HarnessCounts == {25000, 10000, 0, 20000, 5000}

FixtureArgs ==
    {<<w, h, n>> : w \in 1..MaxDim, h \in 1..MaxDim, n \in 0..MaxCount}
      \cup {<<HarnessSize, HarnessSize, n>> : n \in HarnessCounts}

InitHarness ==
    /\ pc = "start"
    /\ file = NoFile /\ args = <<>> /\ S_unoccluded = 0 /\ ret = <<>>
    /\ exc = None /\ fault = None
    /\ contours = <<>> /\ largest_contour = {} /\ mask = {} /\ stdout = Silent

CreateTestImage ==
    /\ pc = "start"
    /\ \E a \in FixtureArgs :
          /\ args' = a
          /\ file' = create_test_image(a[1], a[2], a[3])
          /\ stdout' = [msg |-> "Created test image",
                        pixels |-> Square(a[1], a[2], a[3]).actual_pixels]
    /\ pc' = "ready"
    /\ UNCHANGED <<S_unoccluded, ret, exc, fault, contours, largest_contour, mask>>

NextHarness == CreateTestImage \/ CalculateQ1

SpecHarness == InitHarness /\ [][NextHarness]_vars

(***************************************************************************)
(* SpecSeg: calculate_q1 on image files of GridW x GridH cells, each the   *)
(* union of a first shape (nothing, a filled rectangle or the outline of a *)
(* rectangle) and a second one (nothing or a filled rectangle of at most   *)
(* MaxBlob x MaxBlob cells), and on files that cannot be decoded.          *)
(***************************************************************************)
Rect(x0, y0, x1, y1) == {<<x, y>> : x \in x0..x1, y \in y0..y1}

Outline(x0, y0, x1, y1) == Rect(x0, y0, x1, y1) \ Rect(x0 + 1, y0 + 1, x1 - 1, y1 - 1)

Boxes(maxside) ==
    {b \in (0..(GridW - 1)) \X (0..(GridH - 1)) \X (0..(GridW - 1)) \X (0..(GridH - 1)) :
        /\ b[1] <= b[3] /\ b[3] - b[1] < maxside
        /\ b[2] <= b[4] /\ b[4] - b[2] < maxside}

FirstShapes ==
    {{}} \cup {Rect(b[1], b[2], b[3], b[4]) : b \in Boxes(GridW + GridH)}
         \cup {Outline(b[1], b[2], b[3], b[4]) : b \in Boxes(GridW + GridH)}

SecondShapes == {{}} \cup {Rect(b[1], b[2], b[3], b[4]) : b \in Boxes(MaxBlob)}

Corrupt == [kind |-> "corrupt", width |-> 0, height |-> 0, fg |-> {}]

ImageFiles ==
    {Image(GridW, GridH, a \cup b) : a \in FirstShapes, b \in SecondShapes}
      \cup {NoFile, Corrupt}

InitSeg ==
    /\ pc = "ready"
    /\ file \in ImageFiles
    /\ args = <<>> /\ S_unoccluded = 0 /\ ret = <<>>
    /\ exc = None /\ fault = None
    /\ contours = <<>> /\ largest_contour = {} /\ mask = {} /\ stdout = Silent

NextSeg == CalculateQ1

SpecSeg == InitSeg /\ [][NextSeg]_vars

(***************************************************************************)
(* Properties of the scoring step (SpecScore).                             *)
(***************************************************************************)
\* C1 as stated: the returned score is 0 if and only if the pixel count is 0.
C1_VetoIffZero ==
    pc = "scored" => (ret[1] = 0 <=> S_unoccluded = 0)

\* C1 amended: a pixel count of 0 returns (0, 0), and the returned score is 0
\* if and only if the raw score S/Sc*100 is at most one half, that is for the
\* pixel counts 0..100; every larger count scores at least 1.
C1_VetoAndSmallCounts ==
    pc = "scored" =>
        /\ S_unoccluded = 0 => ret = <<0, 0>>
        /\ ret[1] = 0 <=> 2 * Percent * S_unoccluded <= Sc
        /\ 2 * Percent * S_unoccluded > Sc => ret[1] >= 1

C1_Witness ==
    pc = "scored" /\ S_unoccluded = Sc \div (2 * Percent) /\ ret = <<0, Sc \div (2 * Percent)>>

\* C2: every pixel count >= 20000 scores exactly 100, and every score is an
\* integer of 0..100.
C2_Cap ==
    pc = "scored" =>
        /\ ret[1] \in 0..MaxScore
        /\ S_unoccluded >= Sc => ret[1] = MaxScore

C2_Witness ==
    pc = "scored" /\ S_unoccluded = Sc + Sc \div 4 /\ ret = <<MaxScore, Sc + Sc \div 4>>

\* n / d rounded to the nearest integer, halves to the even neighbour, in
\* exact arithmetic
RoundHalfEven(n, d) ==
    LET q == n \div d
        r == n % d
    IN  IF 2 * r > d THEN q + 1
        ELSE IF 2 * r < d THEN q
        ELSE IF q % 2 = 0 THEN q ELSE q + 1

\* C3: for every pixel count p > 0 the score is min(100, R(p * 100 / 20000)),
\* the division exact and R rounding halves to the even neighbour.
C3_ExactRoundHalfEven ==
    (pc = "scored" /\ S_unoccluded > 0) =>
        ret[1] = (IF RoundHalfEven(S_unoccluded * Percent, Sc) < MaxScore
                  THEN RoundHalfEven(S_unoccluded * Percent, Sc) ELSE MaxScore)

\* C4: when the pixel count of the next image is not smaller the score is not
\* smaller, and from 20000 pixels on the score stays 100.
C4_Monotone ==
    [][ (pc = "scored" /\ pc' = "scored" /\ S_unoccluded' >= S_unoccluded) =>
            /\ ret'[1] >= ret[1]
            /\ S_unoccluded >= Sc => (ret[1] = MaxScore /\ ret'[1] = MaxScore) ]_vars

C4_Witness ==
    pc = "scored" /\ S_unoccluded = Sc + 1 /\ ret = <<MaxScore, Sc + 1>>

(***************************************************************************)
(* Properties of calculate_q1 on image files (SpecSeg).                    *)
(***************************************************************************)
\* the components of the binary mask calculate_q1 worked on
MaskComponents == Components(binary_mask(file))

\* the cells inside the outer border of the selected component, not of it
Holes == Enclosed(largest_contour, file.width, file.height) \ largest_contour

\* C5: calculate_q1 raises nothing to its caller, and on every failure (file
\* not decodable, exception inside the pipeline, no component, empty region)
\* it returns exactly (0, 0).
C5_NeverRaises ==
    pc = "done" =>
        /\ exc = None
        /\ Len(ret) = 2
        /\ (file.kind # "image" \/ fault # None \/ Len(contours) = 0 \/ mask = {})
              => ret = <<0, 0>>

C5_Witness ==
    pc = "done" /\ file.kind = "image" /\ file.fg # {} /\ fault = "cv2.error"
                /\ exc = None /\ ret = <<0, 0>>

\* C8: the selected component has the greatest number of pixels: no component
\* of the mask has strictly more pixels than the selected one.
C8_LargestByPixelCount ==
    (pc = "done" /\ largest_contour # {}) =>
        \A c \in MaskComponents : Cardinality(c) <= Cardinality(largest_contour)

\* C9 as stated: the returned count is the number of cells on or inside the
\* outer border of the selected component, holes included, no cell of any
\* other component is counted, the count is within 0..width*height and the
\* score is the score of the count.
C9_NoOtherComponentCounted ==
    (pc = "done" /\ mask # {}) =>
        /\ mask = largest_contour \cup Holes
        /\ ret[2] = Cardinality(mask)
        /\ \A d \in MaskComponents \ {largest_contour} : d \cap mask = {}
        /\ ret[2] \in 0..(file.width * file.height)
        /\ ret = ScoreStep(ret[2])

\* C9 amended: as stated, except that a component lying in a hole of the
\* selected component is counted with the hole; the components outside the
\* outer border are not counted.
C9_CountOfEnclosedRegion ==
    (pc = "done" /\ mask # {}) =>
        /\ mask = largest_contour \cup Holes
        /\ ret[2] = Cardinality(largest_contour) + Cardinality(Holes)
        /\ \A d \in MaskComponents \ {largest_contour} :
              d \cap mask = {} \/ d \subseteq Holes
        /\ ret[2] \in 0..(file.width * file.height)
        /\ ret = ScoreStep(ret[2])

C9_Witness ==
    /\ pc = "done" /\ mask # {} /\ Holes # {}
    /\ \E d \in MaskComponents \ {largest_contour} : d \cap mask = {}
    /\ ret[2] = Cardinality(largest_contour) + Cardinality(Holes)

(***************************************************************************)
(* Properties of create_test_image and of the harness (SpecHarness).       *)
(***************************************************************************)
\* C6: the image written has exactly min(n, width*height) cells of value 255,
\* the count that is printed.
C6_ExactForegroundCount ==
    pc = "ready" =>
        /\ Cardinality(file.fg) = Min(args[3], args[1] * args[2])
        /\ stdout.pixels = Cardinality(file.fg)

\* run_test.py:48, 62, 76, 93, 106, 119: the expected score of each count
Expected(n) ==
    CASE n = 25000 -> 100
      [] n = 10000 -> 50
      [] n = 0     -> 0
      [] n = 20000 -> 100
      [] n = 5000  -> 25

\* C7: for each count n of the harness, create_test_image(200, 200, n) and
\* then calculate_q1 return (expected score, n).
C7_HarnessReturnsRequestedCount ==
    (pc = "done" /\ fault = None /\ args[1] = HarnessSize /\ args[2] = HarnessSize
       /\ args[3] \in HarnessCounts) =>
        ret = <<Expected(args[3]), args[3]>>

\* the least s with s * s >= n
CeilSqrt(n) == CHOOSE s \in 0..n : s * s >= n /\ (s = 0 \/ (s - 1) * (s - 1) < n)

====
